---------------------------- MODULE Spec2Model ----------------------------
(***************************************************************************)
(* A model of parsejson.py (ojroques/sdep): the script loads the JSON      *)
(* analysis of a static library, splits its "Content" into empty and       *)
(* non-empty object files (main), and then either lists the independent    *)
(* object files (printLeaves), lists the empty ones (printEmpty), or       *)
(* verifies that a list of object files is complete (verify).              *)
(*                                                                         *)
(* A value of "Content" is modelled as a record                            *)
(*     [empty |-> BOOLEAN, Dependencies |-> sequence of names]             *)
(* where empty = TRUE stands for the JSON string "EMPTY" (its Dependencies *)
(* field is then a filler that the code can never read).                   *)
(* The key order of the JSON document is the order of KeyOrder.            *)
(***************************************************************************)
EXTENDS Integers, Sequences, FiniteSets

\* ------------------------------------------------------------------ bounds
\* the most dependency entries in the whole JSON document
MaxDeps == 3
\* the most lines in the object list file
MaxList == 3
\* the most non-empty / empty object files in the statistics
MaxNonEmptyCount == 40
MaxEmptyCount == 2

\* Width of the significand of a Python float (IEEE-754 binary64).
MantBits == 53

KeyOrder == <<"a.o", "b.o", "c.o">>
ObjNames == {KeyOrder[i] : i \in 1..Len(KeyOrder)}

\* ------------------------------------------------------------ input spaces
SeqsUpTo(S, n) == UNION {[1..k -> S] : k \in 0..n}

EMPTY == [empty |-> TRUE, Dependencies |-> <<>>]
WithDependencies(deps) == [empty |-> FALSE, Dependencies |-> deps]

\* content with content[key] = value
WithKey(content, key, value) ==
    [k \in DOMAIN content \cup {key} |-> IF k = key THEN value ELSE content[k]]

RECURSIVE ReportsFrom(_, _)
\* Every "Content" whose keys are among KeyOrder[i], KeyOrder[i+1], ... and
\* that holds at most budget dependency entries: KeyOrder[i] is absent, or
\* "EMPTY", or has a list of dependencies.
ReportsFrom(i, budget) ==
    IF i > Len(KeyOrder) THEN {<<>>}
    ELSE ReportsFrom(i + 1, budget)
         \cup {WithKey(r, KeyOrder[i], EMPTY) : r \in ReportsFrom(i + 1, budget)}
         \cup UNION {{WithKey(r, KeyOrder[i], WithDependencies(d)) :
                         r \in ReportsFrom(i + 1, budget - Len(d))} :
                     d \in SeqsUpTo(ObjNames, budget)}

Reports == ReportsFrom(1, MaxDeps)
ObjectLists == SeqsUpTo(ObjNames, MaxList)

\* ----------------------------------------------------------------- helpers
SetOf(s) == {s[i] : i \in 1..Len(s)}

\* The keys of dictionary d in iteration order.
RECURSIVE KeysFrom(_, _)
KeysFrom(d, i) ==
    IF i > Len(KeyOrder) THEN <<>>
    ELSE (IF KeyOrder[i] \in DOMAIN d THEN <<KeyOrder[i]>> ELSE <<>>) \o KeysFrom(d, i + 1)
Keys(d) == KeysFrom(d, 1)

\* ------------------------------------------------- Python float arithmetic
\* A positive float is [m |-> its MantBits significand bits, most significant
\* first, e |-> the exponent of the last bit]: its value is m * 2^e.
\* Zero is the all-zero significand.
Zeros(k) == [i \in 1..k |-> 0]
FloatZero == [m |-> Zeros(MantBits), e |-> 0 - MantBits]

RECURSIVE ShiftOf(_, _)
\* the least k with n * 2^k >= d   (0 < n <= d)
ShiftOf(n, d) == IF n >= d THEN 0 ELSE 1 + ShiftOf(2 * n, d)

RECURSIVE Pow2(_)
Pow2(k) == IF k = 0 THEN 1 ELSE 2 * Pow2(k - 1)

RECURSIVE BitsToInt(_)
BitsToInt(bits) ==
    IF bits = <<>> THEN 0
    ELSE 2 * BitsToInt(SubSeq(bits, 1, Len(bits) - 1)) + bits[Len(bits)]

\* the w binary digits of v, most significant first (0 <= v < 2^w)
ToBitsN(v, w) == [i \in 1..w |-> (v \div Pow2(w - i)) % 2]

RECURSIVE DivChunks(_, _, _)
\* the next k quotient bits of r / d by long division (0 <= r < d), and the
\* remainder they leave; the division produces up to 8 bits in one step
DivChunks(r, d, k) ==
    IF k = 0 THEN [bits |-> <<>>, rem |-> r]
    ELSE LET w    == IF k < 8 THEN k ELSE 8
             s    == r * Pow2(w)
             rest == DivChunks(s % d, d, k - w)
         IN  [bits |-> ToBitsN(s \div d, w) \o rest.bits, rem |-> rest.rem]

\* bits + 1; one bit longer when every bit was 1
Incr(bits) ==
    LET zeros == {i \in 1..Len(bits) : bits[i] = 0}
    IN  IF zeros = {} THEN <<1>> \o [i \in 1..Len(bits) |-> 0]
        ELSE LET j == CHOOSE i \in zeros : \A z \in zeros : z <= i
             IN  [i \in 1..Len(bits) |-> IF i < j THEN bits[i]
                                         ELSE IF i = j THEN 1 ELSE 0]

\* Round to nearest, ties to even: kept are the MantBits leading bits, e the
\* exponent of the last of them, up says that the discarded part is above
\* one half of the last place, tie that it is exactly one half.
RoundNearestEven(kept, e, up, tie) ==
    IF up \/ (tie /\ kept[Len(kept)] = 1)
    THEN LET inc == Incr(kept)
         IN  IF Len(inc) > Len(kept)
             THEN [m |-> SubSeq(inc, 1, Len(kept)), e |-> e + 1]
             ELSE [m |-> inc, e |-> e]
    ELSE [m |-> kept, e |-> e]

\* n / d on two ints with 0 <= n <= d, d > 0: the nearest float to the quotient
FloatDiv(n, d) ==
    IF n = 0 THEN FloatZero
    ELSE LET k == ShiftOf(n, d)
             q == DivChunks(n * Pow2(k) - d, d, MantBits - 1)
         IN  RoundNearestEven(<<1>> \o q.bits, 0 - k - (MantBits - 1),
                              2 * q.rem > d, 2 * q.rem = d)

RECURSIVE ToBits(_)
\* the binary digits of v, most significant first (<<>> for 0)
ToBits(v) == IF v = 0 THEN <<>> ELSE ToBits(v \div 2) \o <<v % 2>>

RECURSIVE MulChunks(_, _, _)
\* the binary digits of bits * c + carry, for a small c; the multiplication
\* takes up to 8 of the last bits in one step
MulChunks(bits, c, carry) ==
    IF bits = <<>> THEN ToBits(carry)
    ELSE LET L == Len(bits)
             w == IF L < 8 THEN L ELSE 8
             t == c * BitsToInt(SubSeq(bits, L - w + 1, L)) + carry
         IN  MulChunks(SubSeq(bits, 1, L - w), c, t \div Pow2(w))
             \o ToBitsN(t % Pow2(w), w)

\* f * c for a small positive int c: the exact product rounded to a float
FloatMul(f, c) ==
    IF f.m = Zeros(MantBits) THEN FloatZero
    ELSE LET p    == MulChunks(f.m, c, 0)
             L    == Len(p)
             kept == SubSeq(p, 1, MantBits)
             rest == SubSeq(p, MantBits + 1, L)
             half == L > MantBits /\ rest[1] = 1
             low  == \E i \in 2..Len(rest) : rest[i] = 1
         IN  RoundNearestEven(kept, f.e + (L - MantBits), half /\ low, half /\ ~low)

\* A formatting that cuts the fraction off instead of rounding.
FormatF0_Truncate(f) ==
    LET intLen == MantBits + f.e
    IN  IF intLen < 0 THEN 0 ELSE BitsToInt(SubSeq(f.m, 1, intLen))

\* "{:.0f}".format(f) for 0 <= f < 2^(MantBits-1), as the integer it prints:
\* the exact value of the float rounded to an integer, ties to even.
FormatF0(f) ==
    LET intLen == MantBits + f.e
    IN  IF intLen < 0 THEN 0
        ELSE LET I    == BitsToInt(SubSeq(f.m, 1, intLen))
                 half == f.m[intLen + 1] = 1
                 low  == \E i \in (intLen + 2)..MantBits : f.m[i] = 1
             IN  IF ~half THEN I
                 ELSE IF low THEN I + 1
                 ELSE IF I % 2 = 0 THEN I ELSE I + 1

\* "{:.0f}".format((num / den) * 100)
Percent(num, den) == FormatF0(FloatMul(FloatDiv(num, den), 100))

\* ------------------------------------------------------------------- state
VARIABLES
    report,        \* the "Content" of the JSON document as loaded (never changed)
    option,        \* "leaves" (no option), "empty" (-e) or "verify" (-v)
    objectFiles,   \* the stripped lines of the object list file (-v)
    pc,            \* "main", "printLeaves", "printEmpty", "verify", "loop",
                   \* "done", or "error" after an uncaught exception
    staticdep,     \* [Content, Empty]: the dictionary main hands to the printers
    nbNonEmptyObj, nbEmptyObj, nbIndepObj,
    leaves,        \* names printed by the loop of printLeaves, in order
    emptyPrinted,  \* names printed by printEmpty, in order
    pct,           \* the percentages printed, in order
    maxLength,
    incompleteObj, \* dictionary: object file -> set of missing dependencies
    idx,           \* position of the for loop of verify in objectFiles
    entries,       \* the lines printed by the for loop of verify
    verdict,       \* "none", "COMPLETE" or "INCOMPLETE"
    error          \* "none" or the name of the uncaught exception

vars == <<report, option, objectFiles, pc, staticdep, nbNonEmptyObj, nbEmptyObj,
          nbIndepObj, leaves, emptyPrinted, pct, maxLength, incompleteObj, idx,
          entries, verdict, error>>

classVars  == <<nbNonEmptyObj, nbEmptyObj, nbIndepObj, leaves, emptyPrinted, pct>>
verifyVars == <<maxLength, incompleteObj, idx, entries, verdict>>
inputVars  == <<report, option, objectFiles>>

Unset ==
    /\ nbNonEmptyObj = 0 /\ nbEmptyObj = 0 /\ nbIndepObj = 0
    /\ leaves = <<>> /\ emptyPrinted = <<>> /\ pct = <<>>
    /\ maxLength = 0 /\ incompleteObj = <<>> /\ idx = 0
    /\ entries = <<>> /\ verdict = "none" /\ error = "none"

\* The state when main has loaded the JSON document and parsed the arguments.
Init ==
    /\ report \in Reports
    /\ option \in {"leaves", "empty", "verify"}
    /\ objectFiles \in (IF option = "verify" THEN ObjectLists ELSE {<<>>})
    /\ pc = "main"
    /\ staticdep = [Content |-> report, Empty |-> <<>>]
    /\ Unset

\* ---------------------------------------------------------------- main
RECURSIVE EmptyKeys(_, _)
\* [key for key, val in content.items() if val == "EMPTY"]
EmptyKeys(content, keys) ==
    IF keys = <<>> THEN <<>>
    ELSE (IF content[Head(keys)] = EMPTY THEN <<Head(keys)>> ELSE <<>>)
         \o EmptyKeys(content, Tail(keys))

\* A main that forgets to drop the empty object files from "Content".
NonEmptyContent_KeepAll(content) == content

\* {key: val for key, val in content.items() if val != "EMPTY"}
NonEmptyContent(content) ==
    [key \in {k \in DOMAIN content : content[k] # EMPTY} |-> content[key]]

Main ==
    /\ pc = "main"
    /\ staticdep' = [Content |-> NonEmptyContent(staticdep.Content),
                     Empty   |-> EmptyKeys(staticdep.Content, Keys(staticdep.Content))]
    /\ pc' = IF option = "verify" THEN "verify"
             ELSE IF option = "empty" THEN "printEmpty" ELSE "printLeaves"
    /\ UNCHANGED <<inputVars, classVars, verifyVars, error>>

\* --------------------------------------------------------- printLeaves
HasNoDependencies(value) == value.Dependencies = <<>>

RECURSIVE IndepKeys(_, _)
\* the object names the for loop of printLeaves prints
IndepKeys(content, keys) ==
    IF keys = <<>> THEN <<>>
    ELSE (IF HasNoDependencies(content[Head(keys)]) THEN <<Head(keys)>> ELSE <<>>)
         \o IndepKeys(content, Tail(keys))

\* The two statistics lines of printLeaves; the first division is evaluated
\* first and raises ZeroDivisionError when there is no non-empty object file.
LeavesStatsRaises(nIndep, nNonEmpty, nEmpty) == nNonEmpty = 0
LeavesStats(nIndep, nNonEmpty, nEmpty) ==
    <<Percent(nIndep, nNonEmpty), Percent(nIndep, nEmpty + nNonEmpty)>>

printLeaves ==
    /\ pc = "printLeaves"
    /\ LET slibContent == staticdep.Content
           found       == IndepKeys(slibContent, Keys(slibContent))
           nNonEmpty   == Cardinality(DOMAIN slibContent)
           nEmpty      == Len(staticdep.Empty)
       IN  /\ nbNonEmptyObj' = nNonEmpty
           /\ nbEmptyObj' = nEmpty
           /\ nbIndepObj' = Len(found)
           /\ leaves' = found
           /\ IF LeavesStatsRaises(Len(found), nNonEmpty, nEmpty)
              THEN /\ error' = "ZeroDivisionError"
                   /\ pc' = "error"
                   /\ pct' = pct
              ELSE /\ pct' = LeavesStats(Len(found), nNonEmpty, nEmpty)
                   /\ pc' = "done"
                   /\ error' = error
    /\ UNCHANGED <<inputVars, staticdep, emptyPrinted, verifyVars>>

\* ---------------------------------------------------------- printEmpty
\* The statistics line of printEmpty, printed only when there is an empty
\* object file (so that its denominator is positive).
EmptyStats(nNonEmpty, nEmpty) == <<Percent(nEmpty, nNonEmpty + nEmpty)>>

printEmpty ==
    /\ pc = "printEmpty"
    /\ LET emptyContent == staticdep.Empty
           nNonEmpty    == Cardinality(DOMAIN staticdep.Content)
           nEmpty       == Len(emptyContent)
       IN  /\ nbNonEmptyObj' = nNonEmpty
           /\ nbEmptyObj' = nEmpty
           /\ IF emptyContent # <<>>
              THEN /\ emptyPrinted' = emptyContent
                   /\ pct' = EmptyStats(nNonEmpty, nEmpty)
              ELSE /\ emptyPrinted' = emptyPrinted
                   /\ pct' = pct
    /\ pc' = "done"
    /\ UNCHANGED <<inputVars, staticdep, nbIndepObj, leaves, verifyVars, error>>

\* -------------------------------------------------------------- verify
MaxOf(S) == CHOOSE m \in S : \A x \in S : x <= m

\* Lines 51-61: max() of an empty list raises ValueError.
verifyStart ==
    /\ pc = "verify"
    /\ LET slibContent == staticdep.Content
       IN  IF DOMAIN slibContent = {}
           THEN /\ error' = "ValueError"
                /\ pc' = "error"
                /\ UNCHANGED <<maxLength, incompleteObj, idx>>
           ELSE /\ maxLength' = MaxOf({Len(name) : name \in DOMAIN slibContent}
                                      \cup {Len("OBJ_FILE")})
                /\ incompleteObj' = <<>>
                /\ idx' = 1
                /\ pc' = "loop"
                /\ error' = error
    /\ UNCHANGED <<inputVars, staticdep, classVars, entries, verdict>>

\* A difference that forgets to take the listed names away.
Difference_NoSubtract(dependencies, names) == SetOf(dependencies)

\* set(dependencies) - set(objectFiles)
Difference(dependencies, names) == SetOf(dependencies) \ SetOf(names)

\* A loop that forgets to save the missing dependencies.
DictSet_Forget(dict, key, value) == dict

\* incompleteObj[objectName] = difference
DictSet(dict, key, value) ==
    [k \in DOMAIN dict \cup {key} |-> IF k = key THEN value ELSE dict[k]]

\* One iteration of the for loop of lines 62-80.
verifyLoop ==
    /\ pc = "loop"
    /\ idx <= Len(objectFiles)
    /\ LET objectName  == objectFiles[idx]
           slibContent == staticdep.Content
       IN  IF objectName \in DOMAIN slibContent
           THEN LET dependencies == slibContent[objectName].Dependencies
                    difference   == Difference(dependencies, objectFiles)
                IN  /\ incompleteObj' = IF difference # {}
                                        THEN DictSet(incompleteObj, objectName, difference)
                                        ELSE incompleteObj
                    /\ entries' = Append(entries, [name |-> objectName, found |-> TRUE,
                                                   dependencies |-> dependencies])
           ELSE /\ entries' = Append(entries, [name |-> objectName, found |-> FALSE,
                                               dependencies |-> <<>>])
                /\ incompleteObj' = incompleteObj
    /\ idx' = idx + 1
    /\ UNCHANGED <<inputVars, pc, staticdep, classVars, maxLength, verdict, error>>

\* The for loop is exhausted: lines 82-93.
verifyVerdict ==
    /\ pc = "loop"
    /\ idx > Len(objectFiles)
    /\ verdict' = IF DOMAIN incompleteObj # {} THEN "INCOMPLETE" ELSE "COMPLETE"
    /\ pc' = "done"
    /\ UNCHANGED <<inputVars, staticdep, classVars, maxLength, incompleteObj, idx,
                   entries, error>>

Next ==
    \/ Main
    \/ printLeaves
    \/ printEmpty
    \/ verifyStart
    \/ verifyLoop
    \/ verifyVerdict

Spec == Init /\ [][Next]_vars

\* ------------------------------------------------- the statistics alone
\* The statistics lines of printLeaves and printEmpty on counts taken from
\* 0..MaxNonEmptyCount and 0..MaxEmptyCount: pc = "stats" is the point of
\* printLeaves after its for loop (line 20), or of printEmpty at line 33.
InitStats ==
    /\ report = <<>>
    /\ option \in {"leaves", "empty"}
    /\ objectFiles = <<>>
    /\ pc = "stats"
    /\ staticdep = [Content |-> <<>>, Empty |-> <<>>]
    /\ nbNonEmptyObj \in 0..MaxNonEmptyCount
    /\ nbEmptyObj \in 0..MaxEmptyCount
    /\ nbIndepObj \in (IF option = "leaves" THEN 0..nbNonEmptyObj ELSE {0})
    /\ leaves = <<>> /\ emptyPrinted = <<>> /\ pct = <<>>
    /\ maxLength = 0 /\ incompleteObj = <<>> /\ idx = 0
    /\ entries = <<>> /\ verdict = "none" /\ error = "none"

\* Lines 20-25.
statsLeaves ==
    /\ pc = "stats"
    /\ option = "leaves"
    /\ IF LeavesStatsRaises(nbIndepObj, nbNonEmptyObj, nbEmptyObj)
       THEN /\ error' = "ZeroDivisionError"
            /\ pc' = "error"
            /\ pct' = pct
       ELSE /\ pct' = LeavesStats(nbIndepObj, nbNonEmptyObj, nbEmptyObj)
            /\ pc' = "done"
            /\ error' = error
    /\ UNCHANGED <<inputVars, staticdep, nbNonEmptyObj, nbEmptyObj, nbIndepObj,
                   leaves, emptyPrinted, verifyVars>>

\* Lines 33-41.
statsEmpty ==
    /\ pc = "stats"
    /\ option = "empty"
    /\ pct' = IF nbEmptyObj > 0 THEN EmptyStats(nbNonEmptyObj, nbEmptyObj) ELSE pct
    /\ pc' = "done"
    /\ UNCHANGED <<inputVars, staticdep, nbNonEmptyObj, nbEmptyObj, nbIndepObj,
                   leaves, emptyPrinted, verifyVars, error>>

NextStats ==
    \/ statsLeaves
    \/ statsEmpty

SpecStats == InitStats /\ [][NextStats]_vars

\* ------------------------------------------------ vocabulary of the claims
Objects == DOMAIN report
Listed  == SetOf(objectFiles)
NonEmptyObjects == {n \in Objects : report[n] # EMPTY}
EmptyObjects    == {n \in Objects : report[n] = EMPTY}

\* the dependencies an object of the report declares (none for an empty one)
DeclaredDeps(n) ==
    IF n \in NonEmptyObjects THEN {report[n].Dependencies[i] :
                                     i \in 1..Len(report[n].Dependencies)}
    ELSE {}

\* every dependency of every listed object of the report is listed
SelfContained == \A n \in Listed \cap Objects : DeclaredDeps(n) \subseteq Listed

\* every dependency named in the report is an object of the report
ClosedGraph == \A n \in Objects : DeclaredDeps(n) \subseteq Objects

RECURSIVE ReachStar(_)
\* the names reachable from S through zero or more dependency edges
ReachStar(S) ==
    LET T == S \cup UNION {DeclaredDeps(p) : p \in S}
    IN  IF T = S THEN S ELSE ReachStar(T)

VerifyEnded    == option = "verify" /\ pc \in {"done", "error"}
VerifyReturned == option = "verify" /\ pc = "done"
ClassifyEnded  == option \in {"leaves", "empty"} /\ pc \in {"done", "error"}

NoDuplicates(s) == \A i, j \in 1..Len(s) : s[i] = s[j] => i = j

\* ------------------------------------------------------------------ claims

\* C1: for every report and every list of names, verify reports COMPLETE if
\* and only if the list is self-contained, and INCOMPLETE otherwise.
C1_VerdictIffSelfContained ==
    VerifyEnded => verdict = (IF SelfContained THEN "COMPLETE" ELSE "INCOMPLETE")

\* C2: the missing map produced by verify has as keys exactly the listed
\* objects of the report with a declared dependency that is not listed, and
\* the value of each key is set(its dependencies) minus set(names): not
\* empty, without a listed name, without a name it does not declare.
C2_MissingExact ==
    VerifyReturned =>
        /\ DOMAIN incompleteObj =
               {n \in Listed \cap Objects : \E dep \in DeclaredDeps(n) : dep \notin Listed}
        /\ \A key \in DOMAIN incompleteObj :
               /\ incompleteObj[key] = DeclaredDeps(key) \ Listed
               /\ incompleteObj[key] # {}
               /\ incompleteObj[key] \cap Listed = {}
               /\ incompleteObj[key] \subseteq DeclaredDeps(key)

\* verify has returned a map with a key that has one dependency listed and
\* another one missing, next to a listed object whose dependencies are all listed
C2_Witness ==
    /\ VerifyReturned
    /\ \E key \in DOMAIN incompleteObj :
           /\ DeclaredDeps(key) \cap Listed # {}
           /\ incompleteObj[key] # DeclaredDeps(key)
    /\ \E n \in Listed \cap NonEmptyObjects :
           DeclaredDeps(n) # {} /\ n \notin DOMAIN incompleteObj

\* C3: a listed name that is absent from the report yields a "not found"
\* entry, is never a key of the missing map and does not abort verify: every
\* name of the list gets its entry, and a list made only of absent names
\* gets the verdict COMPLETE.
C3_AbsentNameNotFatal ==
    VerifyEnded =>
        /\ Len(entries) = Len(objectFiles)
        /\ \A i \in 1..Len(objectFiles) :
               objectFiles[i] \notin Objects =>
                   /\ i <= Len(entries)
                   /\ entries[i].name = objectFiles[i]
                   /\ ~entries[i].found
                   /\ objectFiles[i] \notin DOMAIN incompleteObj
        /\ (Listed \cap Objects = {} => verdict = "COMPLETE")

\* C4: a listed name that is an empty object ("EMPTY") of the report is
\* recorded as present with an empty dependency list, not as "not found".
C4_EmptyObjectIsPresent ==
    VerifyReturned =>
        \A i \in 1..Len(objectFiles) :
            objectFiles[i] \in EmptyObjects =>
                /\ i <= Len(entries)
                /\ entries[i].found
                /\ entries[i].dependencies = <<>>

\* C5: for every report, verify of an empty list returns the empty result
\* (no entry, nothing missing, COMPLETE) and never ends in an error.
C5_EmptyListEmptyResult ==
    (VerifyEnded /\ objectFiles = <<>>) =>
        /\ error = "none"
        /\ pc = "done"
        /\ entries = <<>>
        /\ DOMAIN incompleteObj = {}
        /\ verdict = "COMPLETE"

\* C6: the leaf listing and the empty listing of a report without a
\* non-empty object file end in the DivisionUndefined error: no uncaught
\* division by zero, no percentage.
C6_DivisionUndefined ==
    (ClassifyEnded /\ NonEmptyObjects = {}) =>
        /\ error = "DivisionUndefined"
        /\ pct = <<>>

\* C7: the leaves are exactly the non-empty objects without dependencies
\* (never an empty object, no name twice), emptyCount + nonEmptyCount is
\* |objects|, and leafCount <= nonEmptyCount <= |objects|.
C7_Partition ==
    /\ pc # "main" =>
           /\ DOMAIN staticdep.Content = NonEmptyObjects
           /\ SetOf(staticdep.Empty) = EmptyObjects
           /\ NoDuplicates(staticdep.Empty)
    /\ ClassifyEnded =>
           /\ nbNonEmptyObj = Cardinality(NonEmptyObjects)
           /\ nbEmptyObj = Cardinality(EmptyObjects)
           /\ nbEmptyObj + nbNonEmptyObj = Cardinality(Objects)
           /\ nbNonEmptyObj <= Cardinality(Objects)
    /\ (ClassifyEnded /\ option = "leaves") =>
           /\ SetOf(leaves) = {n \in NonEmptyObjects : report[n].Dependencies = <<>>}
           /\ SetOf(leaves) \cap EmptyObjects = {}
           /\ NoDuplicates(leaves)
           /\ nbIndepObj = Len(leaves)
           /\ nbIndepObj <= nbNonEmptyObj

\* printLeaves has listed the leaves of a report that has an empty object, a
\* leaf and an object with dependencies
C7_Witness ==
    /\ option = "leaves"
    /\ pc = "done"
    /\ EmptyObjects # {}
    /\ leaves # <<>>
    /\ nbIndepObj < nbNonEmptyObj

\* C8: for a report with a closed dependency graph, verify of the list of
\* all its object names, in any order, gives an empty missing map and COMPLETE.
C8_AllNamesComplete ==
    (VerifyEnded /\ ClosedGraph /\ Listed = Objects) =>
        /\ pc = "done"
        /\ DOMAIN incompleteObj = {}
        /\ verdict = "COMPLETE"

\* C9 as stated: when the list omits an object that a listed object requires
\* through one or more dependency edges, the object that declares the
\* omitted one on that chain is a key of the missing map with the omitted
\* object in its set, and the verdict is INCOMPLETE.
C9_DependentFlagged ==
    VerifyEnded =>
        \A x \in Listed \cap Objects :
            \A p \in ReachStar({x}) :
                \A o \in (DeclaredDeps(p) \cap Objects) \ Listed :
                    /\ verdict = "INCOMPLETE"
                    /\ p \in DOMAIN incompleteObj
                    /\ o \in incompleteObj[p]

\* C9 amended: when the list omits a name that a listed object requires
\* through one or more dependency edges, verify returns INCOMPLETE; the
\* object that declares the omitted name is a key of the missing map, with
\* the omitted name in its set, whenever that object is itself listed, and
\* some listed object of the chain is such a key.
C9_ListedDependentFlagged ==
    VerifyEnded =>
        \A x \in Listed \cap Objects :
            \A p \in ReachStar({x}) :
                \A o \in DeclaredDeps(p) \ Listed :
                    /\ pc = "done"
                    /\ verdict = "INCOMPLETE"
                    /\ p \in Listed => /\ p \in DOMAIN incompleteObj
                                       /\ o \in incompleteObj[p]
                    /\ \E q \in Listed \cap ReachStar({x}) :
                           /\ q \in DOMAIN incompleteObj
                           /\ incompleteObj[q] \cap ReachStar({x}) # {}

\* verify has returned for a list that omits an object required only
\* through an object that is itself omitted
C9_Witness ==
    /\ VerifyReturned
    /\ verdict = "INCOMPLETE"
    /\ \E x \in Listed \cap Objects :
           \E p \in ReachStar({x}) \ Listed :
               \E o \in (DeclaredDeps(p) \cap Objects) \ Listed :
                   /\ p \notin DOMAIN incompleteObj
                   /\ x \in DOMAIN incompleteObj
                   /\ o \notin incompleteObj[x]

\* the numerator and the denominator of each percentage printed, in order
PrintedRatios ==
    IF option = "leaves"
    THEN <<[num |-> nbIndepObj, den |-> nbNonEmptyObj],
           [num |-> nbIndepObj, den |-> nbNonEmptyObj + nbEmptyObj]>>
    ELSE IF nbEmptyObj > 0
    THEN <<[num |-> nbEmptyObj, den |-> nbNonEmptyObj + nbEmptyObj]>>
    ELSE <<>>

HalfUp(num, den) == (200 * num + den) \div (2 * den)
ExactHalf(num, den) == (200 * num + den) % (2 * den) = 0

\* C10 as stated: each percentage printed is the exact ratio times 100
\* rounded to the nearest integer, an exact half rounded up:
\* floor((200 * numerator + denominator) / (2 * denominator)).
C10_HalfRoundsUp ==
    (ClassifyEnded /\ pc = "done") =>
        /\ Len(pct) = Len(PrintedRatios)
        /\ \A i \in 1..Len(pct) :
               pct[i] = HalfUp(PrintedRatios[i].num, PrintedRatios[i].den)

\* C10 amended: each percentage printed is an integer nearest to the exact
\* ratio times 100; it is floor((200 * numerator + denominator) /
\* (2 * denominator)) unless the ratio times 100 is an exact half, and an
\* exact half is not always rounded up: 1 of 8 is printed as 12, 3 of 8 as 38.
C10_NearestInteger ==
    (ClassifyEnded /\ pc = "done") =>
        /\ Len(pct) = Len(PrintedRatios)
        /\ \A i \in 1..Len(pct) :
               LET num == PrintedRatios[i].num
                   den == PrintedRatios[i].den
               IN  /\ 2 * (pct[i] * den - 100 * num) <= den
                   /\ 2 * (100 * num - pct[i] * den) <= den
                   /\ ~ExactHalf(num, den) => pct[i] = HalfUp(num, den)
                   /\ (num = 1 /\ den = 8) => pct[i] = 12
                   /\ (num = 3 /\ den = 8) => pct[i] = 38

\* the statistics of printLeaves for 1 leaf among 8 non-empty object files
C10_Witness ==
    /\ option = "leaves"
    /\ pc = "done"
    /\ nbIndepObj = 1
    /\ nbNonEmptyObj = 8
    /\ pct[1] = 12

=============================================================================
